---- MODULE Spec2Model ----
(***************************************************************************)
(* InvestmentTracker (src/utils.py, src/app.py): the transaction store,    *)
(* the managed-asset table and the portfolio valuation aggregator that     *)
(* are kept in two worksheets, "investments" and "managed_assets".         *)
(*                                                                         *)
(* A worksheet is the sequence of its rows, in sheet order.  A Python str  *)
(* is the sequence of its characters (one-character TLA+ strings), so      *)
(* that str.upper, str.endswith, strftime and the string order used by     *)
(* sort_values / groupby are computed and not assumed.  Python's None is   *)
(* NoValue.  Amounts, quantities and prices are integers (a number of      *)
(* smallest units): float() keeps their value, and float rounding is not   *)
(* modelled.  A return percentage is an exact fraction <<num, den>>.       *)
(***************************************************************************)
EXTENDS Integers, Sequences, FiniteSets, TLC

VARIABLES
    investments,      \* rows of worksheet SHEET_INVESTMENTS
    managed_assets,   \* rows of worksheet SHEET_MANAGED
    uuid,             \* the next value of str(uuid.uuid4()): ids are never reused
    call              \* the last call made: its function, arguments and outcome

vars == <<investments, managed_assets, uuid, call>>

----------------------------------------------------------------------------
(* Bounds of the model *)

MaxRows == 2        \* rows the investments sheet may hold before the model stops adding
MaxIds == 6         \* the last id add_transaction may be given
MaxManaged == 4     \* rows the managed-asset sheet may hold before the model stops adding
MaxManagedIds == 8  \* the last id add_managed_asset and init_db may be given
MaxWriteIds == 5    \* the last id either sheet may be given when the calls on both interleave

----------------------------------------------------------------------------
(* Python values *)

NoValue == <<>>                 \* None
Some(v) == <<v>>                \* a value that is not None

\* The characters that occur, in code-point order.
Alphabet ==
    <<"-", "0", "1", "2", "3", "4", "5", "6", "7", "8", "9",
      "A", "B", "C", "D", "E", "F", "G", "H", "I", "J", "K", "L", "M",
      "N", "O", "P", "Q", "R", "S", "T", "U", "V", "W", "X", "Y", "Z",
      "a", "b", "c", "d", "e", "f", "g", "h", "i", "j", "k", "l", "m",
      "n", "o", "p", "q", "r", "s", "t", "u", "v", "w", "x", "y", "z">>

Chars == {Alphabet[i] : i \in 1..Len(Alphabet)}
CodePoint == [c \in Chars |-> CHOOSE i \in 1..Len(Alphabet) : Alphabet[i] = c]
Ord(c) == CodePoint[c]

FirstUpper == Ord("A")
FirstLower == Ord("a")

\* str.upper(): a lower-case letter becomes its capital, the rest stay.
UpperChar(c) == IF Ord(c) >= FirstLower THEN Alphabet[Ord(c) - (FirstLower - FirstUpper)] ELSE c

upper(s) == [i \in 1..Len(s) |-> UpperChar(s[i])]

\* str.endswith(suffix)
endswith(s, suffix) ==
    /\ Len(s) >= Len(suffix)
    /\ SubSeq(s, Len(s) - Len(suffix) + 1, Len(s)) = suffix

\* s < t in Python's order of str (by code point, a proper prefix first).
RECURSIVE StrLess(_, _)
StrLess(s, t) ==
    IF t = <<>> THEN FALSE
    ELSE IF s = <<>> THEN TRUE
    ELSE IF s[1] # t[1] THEN Ord(s[1]) < Ord(t[1])
    ELSE StrLess(Tail(s), Tail(t))

\* The decimal digits of n, zero-padded to width w (%Y, %m, %d).
RECURSIVE Pad(_, _)
Pad(n, w) == IF w = 0 THEN <<>> ELSE Pad(n \div 10, w - 1) \o <<Alphabet[(n % 10) + 2]>>

\* date.strftime("%Y-%m-%d") of the date <<year, month, day>>.
strftime(date) == Pad(date[1], 4) \o <<"-">> \o Pad(date[2], 2) \o <<"-">> \o Pad(date[3], 2)

----------------------------------------------------------------------------
(* Inputs *)

BTC == <<"B", "T", "C">>
ETH == <<"E", "T", "H">>
BNB == <<"B", "N", "B">>
USD == <<"-", "U", "S", "D">>

JAN_09 == <<2024, 1, 9>>
JAN_10 == <<2024, 1, 10>>

\* The argument tuples add_transaction and update_transaction are called with.
\* Every field takes two values or more; the tuples hold a lower-case ticker,
\* one pair (BTC, Crypto) twice, one ticker under two asset types, and amounts
\* and quantities that are zero or negative (utils.py accepts any number).
TxInputs ==
    { [date |-> JAN_10, asset_type |-> "Crypto", ticker |-> <<"b", "t", "c">>, amount |-> 2, quantity |-> 1],
      [date |-> JAN_09, asset_type |-> "Crypto", ticker |-> BTC, amount |-> 1, quantity |-> 2],
      [date |-> JAN_10, asset_type |-> "Stock", ticker |-> BTC, amount |-> 1, quantity |-> 1],
      [date |-> JAN_09, asset_type |-> "Stock", ticker |-> ETH, amount |-> 0, quantity |-> 1],
      [date |-> JAN_09, asset_type |-> "Crypto", ticker |-> ETH, amount |-> 1, quantity |-> 0],
      [date |-> JAN_10, asset_type |-> "Stock", ticker |-> ETH, amount |-> -1, quantity |-> 1] }

----------------------------------------------------------------------------
(* Transaction store                                                       *)
(*                                                                         *)
(* A function of utils.py that changes a sheet reads it, computes the new  *)
(* frame and writes it back; the operator of its name gives the frame      *)
(* written from the frame read.  These reads are taken to succeed: a read  *)
(* that raises ends the call before anything is written.  The reads that   *)
(* utils.py wraps in try/except take the argument readable.                *)

Ids(df) == {df[i].id : i \in 1..Len(df)}

\* The ids update and delete are called with on a sheet: the id of each of its
\* rows, the id handed out last (of a row of either sheet, or of a row deleted
\* since) and the next id, which no row has.
IdInputs(df) == Ids(df) \cup {uuid - 1, uuid}

\* add_transaction with the ticker stored as typed.
add_transaction_as_typed(df, id, date, asset_type, ticker, amount, quantity) ==
    Append(df, [id |-> id,
                date |-> strftime(date),
                asset_type |-> asset_type,
                ticker |-> ticker,
                amount |-> amount,
                quantity |-> quantity])

\* add_transaction: the sheet with the new row appended.
add_transaction(df, id, date, asset_type, ticker, amount, quantity) ==
    Append(df, [id |-> id,
                date |-> strftime(date),
                asset_type |-> asset_type,
                ticker |-> upper(ticker),
                amount |-> amount,
                quantity |-> quantity])

\* update_transaction that appends a row when no row has the id.
update_transaction_upsert(df, id, date, asset_type, ticker, amount, quantity) ==
    IF id \in Ids(df)
    THEN [i \in 1..Len(df) |->
            IF df[i].id = id
            THEN [id |-> id, date |-> strftime(date), asset_type |-> asset_type,
                  ticker |-> upper(ticker), amount |-> amount, quantity |-> quantity]
            ELSE df[i]]
    ELSE Append(df, [id |-> id, date |-> strftime(date), asset_type |-> asset_type,
                     ticker |-> upper(ticker), amount |-> amount, quantity |-> quantity])

\* update_transaction assigning without the row mask: once some row has the id,
\* every row gets the new fields.
update_transaction_unmasked(df, id, date, asset_type, ticker, amount, quantity) ==
    IF id \in Ids(df)
    THEN [i \in 1..Len(df) |->
            [df[i] EXCEPT !.date = strftime(date),
                          !.asset_type = asset_type,
                          !.ticker = upper(ticker),
                          !.amount = amount,
                          !.quantity = quantity]]
    ELSE df

\* update_transaction: every row with that id gets the new fields; the sheet is
\* written only when some row has the id.  (Ids are strings already, so
\* astype(str) and str(id) leave them as they are.)
update_transaction(df, id, date, asset_type, ticker, amount, quantity) ==
    IF id \in Ids(df)
    THEN [i \in 1..Len(df) |->
            IF df[i].id = id
            THEN [df[i] EXCEPT !.date = strftime(date),
                               !.asset_type = asset_type,
                               !.ticker = upper(ticker),
                               !.amount = amount,
                               !.quantity = quantity]
            ELSE df[i]]
    ELSE df

\* delete_transaction with the mask inverted: df[df['id'] == id].
delete_transaction_inverted(df, id) == SelectSeq(df, LAMBDA r : r.id = id)

\* delete_transaction: df[df['id'] != id], written back.
delete_transaction(df, id) == SelectSeq(df, LAMBDA r : r.id # id)

\* The insertion step of sort_values(by="date") with the default ascending=True.
RECURSIVE InsertByDateAsc(_, _)
InsertByDateAsc(sorted, r) ==
    IF sorted = <<>> THEN <<r>>
    ELSE IF StrLess(r.date, sorted[1].date) THEN <<r>> \o sorted
    ELSE <<sorted[1]>> \o InsertByDateAsc(Tail(sorted), r)

\* sort_values(by="date", ascending=False): rows with equal dates keep their
\* sheet order.
RECURSIVE InsertByDateDesc(_, _)
InsertByDateDesc(sorted, r) ==
    IF sorted = <<>> THEN <<r>>
    ELSE IF StrLess(sorted[1].date, r.date) THEN <<r>> \o sorted
    ELSE <<sorted[1]>> \o InsertByDateDesc(Tail(sorted), r)

RECURSIVE SortByDateDesc(_, _)
SortByDateDesc(df, sorted) ==
    IF df = <<>> THEN sorted
    ELSE SortByDateDesc(Tail(df), InsertByDateDesc(sorted, df[1]))

\* get_transactions: an empty frame when the read raises or the sheet holds no
\* row, else the rows by date, latest first.
get_transactions(df, readable) ==
    IF ~readable THEN <<>>
    ELSE IF df = <<>> THEN <<>>
    ELSE SortByDateDesc(df, <<>>)

CallAddTransaction ==
    /\ Len(investments) < MaxRows
    /\ uuid <= MaxIds
    /\ \E t \in TxInputs :
          /\ investments' = add_transaction(investments, uuid, t.date, t.asset_type,
                                            t.ticker, t.amount, t.quantity)
          /\ call' = [fn |-> "add_transaction", id |-> uuid, args |-> t, raised |-> "none"]
    /\ uuid' = uuid + 1
    /\ UNCHANGED managed_assets

CallUpdateTransaction ==
    /\ \E id \in IdInputs(investments), t \in TxInputs :
          /\ investments' = update_transaction(investments, id, t.date, t.asset_type,
                                               t.ticker, t.amount, t.quantity)
          /\ call' = [fn |-> "update_transaction", id |-> id, args |-> t, raised |-> "none"]
    /\ UNCHANGED <<managed_assets, uuid>>

CallDeleteTransaction ==
    /\ \E id \in IdInputs(investments) :
          /\ investments' = delete_transaction(investments, id)
          /\ call' = [fn |-> "delete_transaction", id |-> id, raised |-> "none"]
    /\ UNCHANGED <<managed_assets, uuid>>

CallGetTransactions ==
    /\ \E readable \in BOOLEAN :
          call' = [fn |-> "get_transactions", readable |-> readable,
                   ret |-> get_transactions(investments, readable), raised |-> "none"]
    /\ UNCHANGED <<investments, managed_assets, uuid>>

----------------------------------------------------------------------------
(* Price oracle *)

\* What yfinance answers for one symbol: fast_info.last_price (a price, None,
\* an AttributeError or another exception) and history(period="1d") (its last
\* close, an empty frame or an exception).
YfResponses ==
    { [fast |-> [raises |-> "none", last_price |-> Some(2)],
       history |-> [raises |-> "none", close |-> NoValue]],
      [fast |-> [raises |-> "AttributeError", last_price |-> NoValue],
       history |-> [raises |-> "none", close |-> Some(1)]],
      [fast |-> [raises |-> "none", last_price |-> Some(0)],
       history |-> [raises |-> "Exception", close |-> NoValue]] }

\* The symbol yfinance is asked for.
Symbol(ticker, asset_type) ==
    IF asset_type = "Crypto" /\ ~endswith(ticker, USD) THEN ticker \o USD ELSE ticker

\* get_current_price: the price, or None.  yf is yfinance's answer for the symbol.
get_current_price(ticker, asset_type, yf) ==
    IF yf.fast.raises = "Exception" THEN NoValue
    ELSE LET price == IF yf.fast.raises = "AttributeError" THEN NoValue
                      ELSE yf.fast.last_price
         IN  IF price = NoValue \/ price = Some(0)
             THEN IF yf.history.raises = "Exception" THEN NoValue
                  ELSE IF yf.history.close # NoValue THEN yf.history.close
                  ELSE price
             ELSE price

----------------------------------------------------------------------------
(* Portfolio valuation *)

\* The order of the asset types as strings.
TypeOrder == <<"Crypto", "ETF", "Stock">>
TypeRank(t) == CHOOSE i \in 1..Len(TypeOrder) : TypeOrder[i] = t

\* The order groupby puts the keys (ticker, asset_type) in.
KeyLess(r, g) ==
    \/ StrLess(r.ticker, g.ticker)
    \/ r.ticker = g.ticker /\ TypeRank(r.asset_type) < TypeRank(g.asset_type)

\* AddToGroups with the ticker alone as the key: groupby('ticker').
RECURSIVE AddToGroups_by_ticker(_, _)
AddToGroups_by_ticker(groups, r) ==
    LET one == [ticker |-> r.ticker, asset_type |-> r.asset_type,
                amount |-> r.amount, quantity |-> r.quantity]
    IN  IF groups = <<>> THEN <<one>>
        ELSE IF groups[1].ticker = r.ticker
        THEN <<[groups[1] EXCEPT !.amount = @ + r.amount,
                                 !.quantity = @ + r.quantity]>> \o Tail(groups)
        ELSE IF StrLess(r.ticker, groups[1].ticker) THEN <<one>> \o groups
        ELSE <<groups[1]>> \o AddToGroups_by_ticker(Tail(groups), r)

\* One row added to the groups: summed into the group of its key, or a new
\* group at the key's place.
RECURSIVE AddToGroups(_, _)
AddToGroups(groups, r) ==
    LET one == [ticker |-> r.ticker, asset_type |-> r.asset_type,
                amount |-> r.amount, quantity |-> r.quantity]
    IN  IF groups = <<>> THEN <<one>>
        ELSE IF groups[1].ticker = r.ticker /\ groups[1].asset_type = r.asset_type
        THEN <<[groups[1] EXCEPT !.amount = @ + r.amount,
                                 !.quantity = @ + r.quantity]>> \o Tail(groups)
        ELSE IF KeyLess(r, groups[1]) THEN <<one>> \o groups
        ELSE <<groups[1]>> \o AddToGroups(Tail(groups), r)

\* No grouping: one row of the result per transaction.
groupby_per_row(df, groups) ==
    [i \in 1..Len(df) |-> [ticker |-> df[i].ticker, asset_type |-> df[i].asset_type,
                           amount |-> df[i].amount, quantity |-> df[i].quantity]]

\* df.groupby(['ticker', 'asset_type'])[['amount', 'quantity']].sum().reset_index()
RECURSIVE groupby(_, _)
groupby(df, groups) ==
    IF df = <<>> THEN groups
    ELSE groupby(Tail(df), AddToGroups(groups, df[1]))

RECURSIVE GCD(_, _)
GCD(a, b) == IF b = 0 THEN a ELSE GCD(b, a % b)

Abs(n) == IF n < 0 THEN -n ELSE n

\* The number num / den (den > 0), in lowest terms.
Fraction(num, den) ==
    LET g == GCD(Abs(num), den) IN <<num \div g, den \div g>>

\* "Return %" without the guard: the division by an invested of 0 gives inf or
\* nan, written <<numerator, 0>>.
ReturnPct_unguarded(current_value, invested) ==
    IF invested > 0 THEN Fraction((current_value - invested) * 100, invested)
    ELSE IF invested < 0 THEN Fraction((invested - current_value) * 100, -invested)
    ELSE <<current_value - invested, 0>>

\* "Return %": (current_value - invested) / invested * 100 if invested > 0 else 0
ReturnPct(current_value, invested) ==
    IF invested > 0 THEN Fraction((current_value - invested) * 100, invested)
    ELSE Fraction(0, 1)

\* The keys (ticker, asset_type) of the rows.
Pairs(df) == {<<df[i].ticker, df[i].asset_type>> : i \in 1..Len(df)}

\* StatsStep that values a group without a price at what was invested.
StatsStep_value_at_cost(acc, row, quotes) ==
    LET current_price == get_current_price(row.ticker, row.asset_type,
                                           quotes[<<row.ticker, row.asset_type>>])
        current_value == IF current_price # NoValue /\ current_price # Some(0)
                         THEN row.quantity * current_price[1]
                         ELSE row.amount
    IN  [details |-> Append(acc.details,
                        [Ticker |-> row.ticker,
                         Type |-> row.asset_type,
                         Invested |-> row.amount,
                         Quantity |-> row.quantity,
                         CurrentPrice |-> current_price,
                         CurrentValue |-> current_value,
                         ProfitLoss |-> current_value - row.amount,
                         ReturnPct |-> ReturnPct(current_value, row.amount)]),
         total_invested |-> acc.total_invested + row.amount,
         total_current_value |-> acc.total_current_value + current_value,
         fetches |-> Append(acc.fetches,
                        [ticker |-> row.ticker, asset_type |-> row.asset_type,
                         symbol |-> Symbol(row.ticker, row.asset_type)])]

\* One pass of the loop over the grouped rows.  quotes[<<ticker, asset_type>>]
\* is yfinance's answer when the oracle is asked about that pair.
StatsStep(acc, row, quotes) ==
    LET current_price == get_current_price(row.ticker, row.asset_type,
                                           quotes[<<row.ticker, row.asset_type>>])
        current_value == IF current_price # NoValue /\ current_price # Some(0)
                         THEN row.quantity * current_price[1]
                         ELSE 0
    IN  [details |-> Append(acc.details,
                        [Ticker |-> row.ticker,
                         Type |-> row.asset_type,
                         Invested |-> row.amount,
                         Quantity |-> row.quantity,
                         CurrentPrice |-> current_price,
                         CurrentValue |-> current_value,
                         ProfitLoss |-> current_value - row.amount,
                         ReturnPct |-> ReturnPct(current_value, row.amount)]),
         total_invested |-> acc.total_invested + row.amount,
         total_current_value |-> acc.total_current_value + current_value,
         fetches |-> Append(acc.fetches,
                        [ticker |-> row.ticker, asset_type |-> row.asset_type,
                         symbol |-> Symbol(row.ticker, row.asset_type)])]

RECURSIVE StatsLoop(_, _, _)
StatsLoop(grouped, acc, quotes) ==
    IF grouped = <<>> THEN acc
    ELSE StatsLoop(Tail(grouped), StatsStep(acc, grouped[1], quotes), quotes)

\* get_portfolio_stats without the early return: a result with zero totals and
\* no lines when there is nothing to value.
get_portfolio_stats_always(sheet, readable, quotes) ==
    LET df == get_transactions(sheet, readable)
        acc == StatsLoop(groupby(df, <<>>),
                         [details |-> <<>>, total_invested |-> 0,
                          total_current_value |-> 0, fetches |-> <<>>],
                         quotes)
    IN  [ret |-> Some([total_invested |-> acc.total_invested,
                       total_current_value |-> acc.total_current_value,
                       details |-> acc.details]),
         fetches |-> acc.fetches]

\* get_portfolio_stats: ret is None or the result; fetches are the calls of
\* get_current_price it made, in order.
get_portfolio_stats(sheet, readable, quotes) ==
    LET df == get_transactions(sheet, readable)
    IN  IF df = <<>> THEN [ret |-> NoValue, fetches |-> <<>>]
        ELSE LET acc == StatsLoop(groupby(df, <<>>),
                                  [details |-> <<>>, total_invested |-> 0,
                                   total_current_value |-> 0, fetches |-> <<>>],
                                  quotes)
             IN  [ret |-> Some([total_invested |-> acc.total_invested,
                                total_current_value |-> acc.total_current_value,
                                details |-> acc.details]),
                  fetches |-> acc.fetches]

CallGetPortfolioStats ==
    /\ \E readable \in BOOLEAN :
       \E quotes \in [Pairs(get_transactions(investments, readable)) -> YfResponses] :
          LET out == get_portfolio_stats(investments, readable, quotes)
          IN  call' = [fn |-> "get_portfolio_stats", readable |-> readable,
                       quotes |-> quotes, out |-> out, raised |-> "none"]
    /\ UNCHANGED <<investments, managed_assets, uuid>>

----------------------------------------------------------------------------
(* Managed assets *)

ManagedTickerInputs == {<<"b", "t", "c">>, ETH, <<"s", "o", "l">>, <<"S", "o", "L">>}
ManagedTypeInputs == {"Crypto", "Stock"}

\* What the second argument of get_managed_assets may be: None or an asset type.
TypeFilters == {NoValue} \cup {Some(t) : t \in ManagedTypeInputs}

\* The three rows init_db writes, with fresh ids.
DefaultManaged(id) ==
    <<[id |-> id, ticker |-> BTC, asset_type |-> "Crypto"],
      [id |-> id + 1, ticker |-> ETH, asset_type |-> "Crypto"],
      [id |-> id + 2, ticker |-> BNB, asset_type |-> "Crypto"]>>

\* The duplicate check without the upper-casing: ticker in df['ticker'].values
IsDuplicate_case_sensitive(df, ticker) ==
    \E i \in 1..Len(df) : df[i].ticker = ticker

\* ticker.upper() in df['ticker'].str.upper().values
IsDuplicate(df, ticker) ==
    \E i \in 1..Len(df) : upper(df[i].ticker) = upper(ticker)

\* add_managed_asset: the value returned and the sheet afterwards.
add_managed_asset(df, id, ticker, asset_type) ==
    IF IsDuplicate(df, ticker)
    THEN [ret |-> FALSE, df |-> df]
    ELSE [ret |-> TRUE,
          df |-> Append(df, [id |-> id, ticker |-> upper(ticker),
                             asset_type |-> asset_type])]

\* delete_managed_asset: df[df['id'] != id], written back.
delete_managed_asset(df, id) == SelectSeq(df, LAMBDA r : r.id # id)

\* sort_values(by="ticker"): rows with equal tickers keep their order.
RECURSIVE InsertByTicker(_, _)
InsertByTicker(sorted, r) ==
    IF sorted = <<>> THEN <<r>>
    ELSE IF StrLess(r.ticker, sorted[1].ticker) THEN <<r>> \o sorted
    ELSE <<sorted[1]>> \o InsertByTicker(Tail(sorted), r)

RECURSIVE SortByTicker(_, _)
SortByTicker(df, sorted) ==
    IF df = <<>> THEN sorted
    ELSE SortByTicker(Tail(df), InsertByTicker(sorted, df[1]))

\* get_managed_assets without the closing sort_values: the rows in sheet order.
get_managed_assets_unsorted(df, readable, asset_type) ==
    IF ~readable THEN <<>>
    ELSE IF df = <<>> THEN <<>>
    ELSE IF asset_type # NoValue
         THEN SelectSeq(df, LAMBDA r : r.asset_type = asset_type[1])
         ELSE df

\* get_managed_assets: an empty frame when the read raises or the sheet holds no
\* row, else the rows (of the type asked for, if one is) by ticker.
get_managed_assets(df, readable, asset_type) ==
    IF ~readable THEN <<>>
    ELSE IF df = <<>> THEN <<>>
    ELSE IF asset_type # NoValue
         THEN SortByTicker(SelectSeq(df, LAMBDA r : r.asset_type = asset_type[1]), <<>>)
         ELSE SortByTicker(df, <<>>)

CallAddManagedAsset ==
    /\ \E ticker \in ManagedTickerInputs, asset_type \in ManagedTypeInputs :
          LET out == add_managed_asset(managed_assets, uuid, ticker, asset_type)
          IN  /\ out.ret => (Len(managed_assets) < MaxManaged /\ uuid <= MaxManagedIds)
              /\ managed_assets' = out.df
              /\ uuid' = IF out.ret THEN uuid + 1 ELSE uuid
              /\ call' = [fn |-> "add_managed_asset", ticker |-> ticker,
                          asset_type |-> asset_type, ret |-> out.ret, raised |-> "none"]
    /\ UNCHANGED investments

CallDeleteManagedAsset ==
    /\ \E id \in IdInputs(managed_assets) :
          /\ managed_assets' = delete_managed_asset(managed_assets, id)
          /\ call' = [fn |-> "delete_managed_asset", id |-> id, raised |-> "none"]
    /\ UNCHANGED <<investments, uuid>>

CallGetManagedAssets ==
    /\ \E readable \in BOOLEAN, asset_type \in TypeFilters :
          call' = [fn |-> "get_managed_assets", readable |-> readable,
                   asset_type |-> asset_type,
                   ret |-> get_managed_assets(managed_assets, readable, asset_type),
                   raised |-> "none"]
    /\ UNCHANGED <<investments, managed_assets, uuid>>

----------------------------------------------------------------------------
(* init_db *)

\* The investments sheet after init_db: the headers alone when the read raised
\* or the sheet held no row, else the sheet as it was.
init_investments(df, readable) ==
    IF ~readable THEN <<>>
    ELSE IF df = <<>> THEN <<>>
    ELSE df

\* The managed-asset sheet after init_db: the three default rows when the read
\* raised or the sheet held no row, else the sheet as it was.
init_managed(df, readable, id) ==
    IF ~readable THEN DefaultManaged(id)
    ELSE IF df = <<>> THEN DefaultManaged(id)
    ELSE df

NumDefaults == Len(DefaultManaged(1))

\* init_db, run at the start of every request (app.py).
CallInitDb ==
    /\ uuid + NumDefaults - 1 <= MaxManagedIds
    /\ \E inv_readable \in BOOLEAN, mgd_readable \in BOOLEAN :
          /\ investments' = init_investments(investments, inv_readable)
          /\ managed_assets' = init_managed(managed_assets, mgd_readable, uuid)
          /\ uuid' = IF ~mgd_readable \/ managed_assets = <<>>
                     THEN uuid + NumDefaults ELSE uuid
          /\ call' = [fn |-> "init_db", inv_readable |-> inv_readable,
                      mgd_readable |-> mgd_readable, raised |-> "none"]

----------------------------------------------------------------------------
(* The program *)

\* Both sheets after init_db's first run on a new spreadsheet.
Init ==
    /\ investments = <<>>
    /\ managed_assets = DefaultManaged(1)
    /\ uuid = NumDefaults + 1
    /\ call = [fn |-> "init_db", inv_readable |-> TRUE, mgd_readable |-> TRUE,
               raised |-> "none"]

TxNext ==
    \/ CallAddTransaction
    \/ CallUpdateTransaction
    \/ CallDeleteTransaction
    \/ CallGetTransactions
    \/ CallGetPortfolioStats

ManagedNext ==
    \/ CallInitDb
    \/ CallAddManagedAsset
    \/ CallDeleteManagedAsset
    \/ CallGetManagedAssets

\* The calls that write to a sheet, on either page; both sheets together grow
\* by the rows that take the ids up to MaxWriteIds.
WriteNext ==
    \/ CallInitDb
    \/ uuid <= MaxWriteIds /\ CallAddTransaction
    \/ CallUpdateTransaction
    \/ CallDeleteTransaction
    \/ uuid <= MaxWriteIds /\ CallAddManagedAsset
    \/ CallDeleteManagedAsset

Next == TxNext \/ ManagedNext

\* Every call, in any order.
Spec == Init /\ [][Next]_vars

\* The calls on the transaction sheet and the aggregator.
SpecTx == Init /\ [][TxNext]_vars

\* init_db and the calls on the managed-asset sheet.
SpecManaged == Init /\ [][ManagedNext]_vars

\* init_db and the calls that write to either sheet.
SpecWrite == Init /\ [][WriteNext]_vars

----------------------------------------------------------------------------
(* Properties of the transaction store *)

\* Arguments the spec calls valid: a ticker, and a positive amount and quantity.
ValidArgs(t) == t.ticker # <<>> /\ t.amount > 0 /\ t.quantity > 0

\* Some listed row holds these fields.
Lists(listed, date, asset_type, ticker, amount, quantity) ==
    \E i \in 1..Len(listed) :
        /\ listed[i].date = date
        /\ listed[i].asset_type = asset_type
        /\ listed[i].ticker = ticker
        /\ listed[i].amount = amount
        /\ listed[i].quantity = quantity

\* C1: add_transaction called with amount <= 0 or quantity <= 0 fails with a
\* ValidationError and leaves the stored transactions as they were.
C1_InvalidAddRejected ==
    [][(call'.fn = "add_transaction"
            /\ (call'.args.amount <= 0 \/ call'.args.quantity <= 0))
        => (call'.raised = "ValidationError" /\ investments' = investments)]_vars

\* C2, as claimed: after add_transaction of valid arguments t, the listing holds
\* a row equal to t in date, asset type, ticker, amount and quantity, and one
\* row more than the listing before.
C2_RoundTripAsGiven ==
    [][(call'.fn = "add_transaction" /\ ValidArgs(call'.args))
        => LET t == call'.args
               listed == get_transactions(investments', TRUE)
           IN  /\ Lists(listed, strftime(t.date), t.asset_type, t.ticker,
                        t.amount, t.quantity)
               /\ Len(listed) = Len(get_transactions(investments, TRUE)) + 1]_vars

\* C2, amended: after add_transaction of valid arguments t, a listing whose read
\* succeeds holds a row equal to t in date (as YYYY-MM-DD), asset type, amount
\* and quantity whose ticker is t's ticker upper-cased, and one row more than
\* the listing before.
C2_RoundTripUpper ==
    [][(call'.fn = "add_transaction" /\ ValidArgs(call'.args))
        => LET t == call'.args
               listed == get_transactions(investments', TRUE)
           IN  /\ Lists(listed, strftime(t.date), t.asset_type, upper(t.ticker),
                        t.amount, t.quantity)
               /\ \E i \in 1..Len(listed) : listed[i].id = call'.id
               /\ Len(listed) = Len(get_transactions(investments, TRUE)) + 1]_vars

\* A valid transaction with a lower-case ticker was added to a sheet that held one.
C2_Witness ==
    /\ call.fn = "add_transaction"
    /\ ValidArgs(call.args)
    /\ call.args.ticker # upper(call.args.ticker)
    /\ Len(investments) = 2
    /\ investments[2].id = call.id

\* C3: delete_transaction raises nothing; with an id no row has it leaves the
\* sheet as it was; and deleting the same id once more changes nothing.
C3_DeleteIdempotent ==
    [][call'.fn = "delete_transaction"
        => /\ call'.raised = "none"
           /\ call'.id \notin Ids(investments) => investments' = investments
           /\ delete_transaction(investments', call'.id) = investments'
           /\ (call.fn = "delete_transaction" /\ call.id = call'.id)
                 => investments' = investments]_vars

\* delete_transaction was called with the id of a transaction that is not, or
\* no longer, in the sheet, and the sheet holds another row.
C3_Witness ==
    /\ call.fn = "delete_transaction"
    /\ call.id > NumDefaults
    /\ call.id < uuid
    /\ call.id \notin Ids(investments)
    /\ investments # <<>>

\* C4: update_transaction with an id some row has leaves that row with the given
\* date, asset type, upper-cased ticker, amount and quantity and its id, and
\* every sheet position with the row it had; with an id no row has it changes
\* nothing and raises nothing.
C4_UpdateReplacesOrNoop ==
    [][call'.fn = "update_transaction"
        => LET t == call'.args
               id == call'.id
           IN  /\ call'.raised = "none"
               /\ Len(investments') = Len(investments)
               /\ id \in Ids(investments) =>
                     \A i \in 1..Len(investments) :
                        investments[i].id = id =>
                           investments'[i] = [id |-> id,
                                              date |-> strftime(t.date),
                                              asset_type |-> t.asset_type,
                                              ticker |-> upper(t.ticker),
                                              amount |-> t.amount,
                                              quantity |-> t.quantity]
               /\ id \notin Ids(investments) => investments' = investments]_vars

\* update_transaction was called with a lower-case ticker and the id of the
\* first of two rows.
C4_Witness ==
    /\ call.fn = "update_transaction"
    /\ Len(investments) = 2
    /\ call.id = investments[1].id
    /\ call.args.ticker # upper(call.args.ticker)
    /\ investments[1].ticker = upper(call.args.ticker)

----------------------------------------------------------------------------
(* Properties of the managed-asset sheet *)

\* No two rows have tickers that are equal ignoring case.
UniqueTickers(df) ==
    \A i, j \in 1..Len(df) : upper(df[i].ticker) = upper(df[j].ticker) => i = j

\* Some row of the sheet has this ticker, ignoring case.
HasTicker(df, ticker) ==
    \E i \in 1..Len(df) : upper(df[i].ticker) = upper(ticker)

\* C5: add_managed_asset returns False and leaves the sheet as it was when a row
\* has the ticker ignoring case, whatever its asset type, and else returns True
\* and appends one row; so no two rows ever have tickers equal ignoring case.
C5_ManagedTickersUnique ==
    /\ []UniqueTickers(managed_assets)
    /\ [][call'.fn = "add_managed_asset"
            => IF HasTicker(managed_assets, call'.ticker)
               THEN call'.ret = FALSE /\ managed_assets' = managed_assets
               ELSE /\ call'.ret = TRUE
                    /\ Len(managed_assets') = Len(managed_assets) + 1
                    /\ SubSeq(managed_assets', 1, Len(managed_assets)) = managed_assets
                    /\ managed_assets'[Len(managed_assets')].ticker = upper(call'.ticker)
                    /\ managed_assets'[Len(managed_assets')].asset_type = call'.asset_type
                    /\ managed_assets'[Len(managed_assets')].id \notin Ids(managed_assets)]_vars

\* add_managed_asset refused a lower-case ticker of another asset type than the
\* row that has it.
C5_Witness ==
    /\ call.fn = "add_managed_asset"
    /\ call.ret = FALSE
    /\ call.ticker # upper(call.ticker)
    /\ \E i \in 1..Len(managed_assets) :
          /\ managed_assets[i].ticker = upper(call.ticker)
          /\ managed_assets[i].asset_type # call.asset_type

----------------------------------------------------------------------------
(* Properties of the portfolio valuation *)

\* The sum of a column over the rows of one pair (ticker, asset_type).
RECURSIVE SumOf(_, _, _)
SumOf(df, pair, column) ==
    IF df = <<>> THEN 0
    ELSE (IF <<df[1].ticker, df[1].asset_type>> = pair THEN df[1][column] ELSE 0)
         + SumOf(Tail(df), pair, column)

IsStatsCall == call.fn = "get_portfolio_stats"

\* The call of get_portfolio_stats returned a result.
HasResult == IsStatsCall /\ call.out.ret # NoValue

Details == call.out.ret[1].details

LineKey(line) == <<line.Ticker, line.Type>>

\* C6: get_portfolio_stats on a sheet that holds rows (and is read) returns one
\* line for each pair (ticker, asset_type) among the transactions and none
\* else, and a line's invested and quantity are the sums of amount and of
\* quantity over the transactions of its pair.
C6_OneLinePerPair ==
    (IsStatsCall /\ call.readable /\ investments # <<>>)
    => /\ call.out.ret # NoValue
       /\ \A p \in Pairs(investments) :
             Cardinality({i \in 1..Len(Details) : LineKey(Details[i]) = p}) = 1
       /\ \A i \in 1..Len(Details) :
             /\ LineKey(Details[i]) \in Pairs(investments)
             /\ Details[i].Invested = SumOf(investments, LineKey(Details[i]), "amount")
             /\ Details[i].Quantity = SumOf(investments, LineKey(Details[i]), "quantity")

\* The result has two lines for one ticker, one per asset type.
C6_Witness ==
    /\ HasResult
    /\ Len(Details) = 2
    /\ Details[1].Ticker = Details[2].Ticker
    /\ Details[1].Type # Details[2].Type

\* The price the oracle returned for the pair of a line.
OraclePrice(line) == get_current_price(line.Ticker, line.Type, call.quotes[LineKey(line)])

\* C7: when the oracle returns None for a group, get_portfolio_stats still
\* returns a result, the group's current value is 0, its profit/loss is minus
\* what was invested and its return is -100 % when invested > 0, and the line of
\* every other group is what it is whatever yfinance answers for the failing one.
C7_PriceUnavailable ==
    (IsStatsCall /\ call.readable /\ investments # <<>>)
    => /\ call.out.ret # NoValue
       /\ call.raised = "none"
       /\ \A i \in 1..Len(Details) :
             OraclePrice(Details[i]) = NoValue
             => /\ Details[i].CurrentPrice = NoValue
                /\ Details[i].CurrentValue = 0
                /\ Details[i].ProfitLoss = -Details[i].Invested
                /\ Details[i].Invested > 0 => Details[i].ReturnPct = <<-100, 1>>
                /\ \A yf \in YfResponses :
                      LET other == get_portfolio_stats(investments, TRUE,
                                      [call.quotes EXCEPT ![LineKey(Details[i])] = yf])
                      IN  /\ other.ret # NoValue
                          /\ Len(other.ret[1].details) = Len(Details)
                          /\ \A j \in 1..Len(Details) :
                                j # i => other.ret[1].details[j] = Details[j]

\* The oracle had no price for a group with money invested and a price for another.
C7_Witness ==
    /\ HasResult
    /\ \E i, j \in 1..Len(Details) :
          /\ OraclePrice(Details[i]) = NoValue
          /\ Details[i].Invested > 0
          /\ Details[j].CurrentPrice # NoValue
          /\ Details[j].CurrentValue > 0

\* C8: get_portfolio_stats returns None, raises nothing and does not call the
\* oracle when the sheet holds no transaction or cannot be read.
C8_NoDataIsNone ==
    (IsStatsCall /\ (investments = <<>> \/ ~call.readable))
    => /\ call.out.ret = NoValue
       /\ call.out.fetches = <<>>
       /\ call.raised = "none"

\* get_portfolio_stats was called when the sheet held rows and could not be read.
C8_Witness ==
    /\ IsStatsCall
    /\ ~call.readable
    /\ Len(investments) = 2

\* C9: a line with invested = 0 has a return of exactly 0; the return is
\* profit/loss / invested * 100 when invested > 0, and 0 otherwise.
C9_ZeroInvestedGuard ==
    HasResult
    => \A i \in 1..Len(Details) :
          LET line == Details[i]
          IN  /\ line.Invested = 0 => line.ReturnPct = <<0, 1>>
              /\ line.Invested > 0 =>
                    /\ line.ReturnPct[2] > 0
                    /\ line.ReturnPct[1] * line.Invested
                          = line.ProfitLoss * 100 * line.ReturnPct[2]
              /\ line.Invested < 0 => line.ReturnPct = <<0, 1>>

\* A group with nothing invested is worth something.
C9_Witness ==
    /\ HasResult
    /\ \E i \in 1..Len(Details) :
          Details[i].Invested = 0 /\ Details[i].CurrentValue > 0

\* C10: one call of get_portfolio_stats asks the oracle once for each pair
\* (ticker, asset_type) among the transactions it read, so as many times as
\* there are pairs.
C10_OneFetchPerPair ==
    IsStatsCall
    => LET read == get_transactions(investments, call.readable)
           fetches == call.out.fetches
       IN  /\ Len(fetches) = Cardinality(Pairs(read))
           /\ \A p \in Pairs(read) :
                 Cardinality({i \in 1..Len(fetches) :
                                 <<fetches[i].ticker, fetches[i].asset_type>> = p}) = 1

\* Two transactions of one pair were valued with one call of the oracle.
C10_Witness ==
    /\ IsStatsCall
    /\ call.readable
    /\ Len(investments) = 2
    /\ Cardinality(Pairs(investments)) = 1
    /\ Len(call.out.fetches) = 1

----------------------------------------------------------------------------
(* Properties of the two listings *)

\* The rows of ret are the rows of df that satisfy Keep, each exactly once.
SameRows(ret, df, Keep(_)) ==
    /\ Len(ret) = Cardinality({i \in 1..Len(df) : Keep(df[i])})
    /\ \A i \in 1..Len(df) :
          Keep(df[i]) => Cardinality({j \in 1..Len(ret) : ret[j] = df[i]}) = 1

\* Adjacent rows are in non-decreasing ticker order.
OrderedByTicker(ret) ==
    \A i \in 1..(Len(ret) - 1) : ~StrLess(ret[i + 1].ticker, ret[i].ticker)

\* Adjacent rows are in non-decreasing (asset_type, ticker) order.
OrderedByTypeTicker(ret) ==
    \A i \in 1..(Len(ret) - 1) :
        \/ TypeRank(ret[i].asset_type) < TypeRank(ret[i + 1].asset_type)
        \/ /\ ret[i].asset_type = ret[i + 1].asset_type
           /\ ~StrLess(ret[i + 1].ticker, ret[i].ticker)

IsManagedListing == call.fn = "get_managed_assets"

\* C11 as stated, for the calls whose read succeeded: get_managed_assets without
\* a type returns every managed asset ordered by (asset_type, ticker); with a
\* type it returns exactly the assets of that type ordered by ticker.
C11_ListByTypeThenTicker ==
    IsManagedListing /\ call.readable =>
        IF call.asset_type = NoValue
        THEN /\ SameRows(call.ret, managed_assets, LAMBDA r : TRUE)
             /\ OrderedByTypeTicker(call.ret)
        ELSE /\ SameRows(call.ret, managed_assets,
                         LAMBDA r : r.asset_type = call.asset_type[1])
             /\ OrderedByTicker(call.ret)

\* C11, amended: when the sheet could be read, get_managed_assets without a type
\* returns every managed asset, and with a type exactly the assets of that type,
\* each once and in both cases ordered by ticker alone; when the read fails it
\* returns no row.
C11_ListByTicker ==
    IsManagedListing =>
        IF ~call.readable THEN call.ret = <<>>
        ELSE /\ OrderedByTicker(call.ret)
             /\ IF call.asset_type = NoValue
                THEN SameRows(call.ret, managed_assets, LAMBDA r : TRUE)
                ELSE SameRows(call.ret, managed_assets,
                              LAMBDA r : r.asset_type = call.asset_type[1])

\* An unfiltered listing of a sheet holding two types, which the sort had to
\* reorder, and a filtered one that left a row of another type out.
C11_Witness ==
    /\ IsManagedListing
    /\ call.readable
    /\ \E i, j \in 1..Len(managed_assets) :
          managed_assets[i].asset_type # managed_assets[j].asset_type
    /\ \/ call.asset_type = NoValue /\ call.ret # managed_assets
       \/ /\ call.asset_type # NoValue
          /\ Len(call.ret) > 1
          /\ Len(call.ret) < Len(managed_assets)

\* The calendar date a stored date text stands for, and the order of dates.
DateOf(text) == CHOOSE d \in {t.date : t \in TxInputs} : strftime(d) = text
DateLess(d, e) ==
    \/ d[1] < e[1]
    \/ d[1] = e[1] /\ d[2] < e[2]
    \/ d[1] = e[1] /\ d[2] = e[2] /\ d[3] < e[3]

IsTxListing == call.fn = "get_transactions"

\* C12: get_transactions returns all stored transactions, each exactly once,
\* with no row dated before the row that follows it, and returns no row, raising
\* nothing, when the sheet is empty or the read fails.
C12_ListByDateDesc ==
    IsTxListing =>
        /\ call.raised = "none"
        /\ IF ~call.readable \/ investments = <<>> THEN call.ret = <<>>
           ELSE /\ SameRows(call.ret, investments, LAMBDA r : TRUE)
                /\ \A i \in 1..(Len(call.ret) - 1) :
                      ~DateLess(DateOf(call.ret[i].date), DateOf(call.ret[i + 1].date))

\* A listing of two transactions the sheet holds earliest first.
C12_Witness ==
    /\ IsTxListing
    /\ call.readable
    /\ Len(investments) = 2
    /\ DateLess(DateOf(investments[1].date), DateOf(investments[2].date))
    /\ call.ret = <<investments[2], investments[1]>>

\* A listing whose read failed although the sheet holds a transaction.
C12_WitnessReadFails ==
    /\ IsTxListing
    /\ ~call.readable
    /\ investments # <<>>
    /\ call.ret = <<>>

----------------------------------------------------------------------------
(* Properties of the stored data *)

\* C13: whatever add_transaction, update_transaction and delete_transaction were
\* called with, every stored transaction has amount > 0, quantity > 0 and an
\* upper-case ticker.
C13_StoredRowsValid ==
    \A i \in 1..Len(investments) :
        /\ investments[i].amount > 0
        /\ investments[i].quantity > 0
        /\ investments[i].ticker = upper(investments[i].ticker)

\* The part of C13 the code keeps: every stored ticker is upper-case.
C13_StoredTickersUpper ==
    \A i \in 1..Len(investments) : investments[i].ticker = upper(investments[i].ticker)

----------------------------------------------------------------------------
(* What a call leaves alone *)

\* The rows of df whose id is id.
Matching(df, id) == {i \in 1..Len(df) : df[i].id = id}

\* after holds the rows of before whose id is not id, unchanged and in their
\* order, and besides them only rows with that id.
OthersKept(before, after, id) ==
    SelectSeq(after, LAMBDA r : r.id # id) = SelectSeq(before, LAMBDA r : r.id # id)

\* C14: update_transaction and delete_transaction change only the rows whose id
\* is the one given: every other row keeps all its fields, the number of rows
\* stays the same on update and drops by the number of matching rows on delete,
\* and the managed-asset sheet is left as it was; add_managed_asset and
\* delete_managed_asset leave the investments sheet as it was.
C14_Frame ==
    [][ /\ call'.fn = "update_transaction" =>
              /\ OthersKept(investments, investments', call'.id)
              /\ Len(investments') = Len(investments)
              /\ managed_assets' = managed_assets
        /\ call'.fn = "delete_transaction" =>
              /\ OthersKept(investments, investments', call'.id)
              /\ Len(investments') =
                    Len(investments) - Cardinality(Matching(investments, call'.id))
              /\ managed_assets' = managed_assets
        /\ call'.fn \in {"add_managed_asset", "delete_managed_asset"} =>
              investments' = investments
      ]_vars

\* An update that changed one of two stored transactions, on a managed-asset
\* sheet that was itself changed while the investments sheet held a row.
C14_Witness ==
    /\ call.fn = "update_transaction"
    /\ Len(investments) = 2
    /\ Cardinality(Matching(investments, call.id)) = 1
    /\ \E i \in Matching(investments, call.id) :
          /\ investments[i].date = strftime(call.args.date)
          /\ investments[i].amount = call.args.amount
    /\ \E i \in 1..Len(investments) :
          /\ investments[i].id # call.id
          /\ investments[i].date # strftime(call.args.date)
    /\ managed_assets # DefaultManaged(1)

\* C15: init_db never removes or alters existing data: whether or not its reads
\* succeed, an investments sheet that holds a row and a managed-asset sheet that
\* holds a row are the same after init_db as before.
C15_InitDbKeepsData ==
    [][ call'.fn = "init_db" =>
            /\ investments # <<>> => investments' = investments
            /\ managed_assets # <<>> => managed_assets' = managed_assets
      ]_vars

\* The part of C15 the code keeps: a sheet that holds a row and that init_db
\* could read is the same after init_db as before.
C15_InitDbKeepsReadData ==
    [][ call'.fn = "init_db" =>
            /\ (call'.inv_readable /\ investments # <<>>) => investments' = investments
            /\ (call'.mgd_readable /\ managed_assets # <<>>) =>
                  managed_assets' = managed_assets
      ]_vars

\* init_db has just run on sheets whose reads failed: the investments sheet is
\* empty and the managed-asset sheet holds the defaults under ids issued after
\* a transaction had been stored.
C15_AfterFailedReads ==
    /\ call.fn = "init_db"
    /\ ~call.inv_readable /\ ~call.mgd_readable
    /\ investments = <<>>
    /\ managed_assets = DefaultManaged(uuid - NumDefaults)
    /\ uuid - NumDefaults > NumDefaults + 1

=============================================================================
